---- MODULE Spec2Model ----
(***************************************************************************)
(* Translation client (src/src/app/page.tsx, component TranslatorApp) and  *)
(* translation proxy (src/src/app/api/translate/route.ts, handler POST).   *)
(*                                                                         *)
(* Texts are sequences of one-character strings so that String.trim() is   *)
(* computed, not assumed.  A React event handler reads the state of the    *)
(* render it was created in: the continuation of handleTranslate that runs *)
(* when the response arrives still sees sourceText, sourceLang, targetLang *)
(* and history as they were when handleTranslate was invoked.  Each        *)
(* request in flight therefore carries those four captured values.         *)
(***************************************************************************)
EXTENDS Integers, Sequences, FiniteSets, TLC

\* ------------------------------------------------------------------ bounds
MaxRequests == 2      \* translate() invocations that issue a request
MaxInFlight == 2      \* requests awaiting their continuation at one time

\* ------------------------------------------------------- program constants
HistoryKeep == 9      \* history.slice(0, 9)

WhiteSpace == {" ", "\n", "\t"}

Null == "<null>"      \* apiError === null

ValidationMsg == "Digite um texto para traduzir"
SuccessMsg == "Tradução concluída!"
FallbackErrorMsg == "Erro ao traduzir"
ConnectErrorMsg == "Erro ao conectar com o servidor. Tente novamente."
LoadedMsg == "Tradução carregada do histórico"
NoToast == "<none>"

\* ------------------------------------------------------------ input sets
LangChoices == {"en"}
Texts == {<<" ", "\n">>, <<"a">>}
Translations == {<<"x">>}

\* ------------------------------------------------------------ String.trim
RECURSIVE TrimStart(_)
TrimStart(s) ==
    IF s = << >> THEN s
    ELSE IF Head(s) \in WhiteSpace THEN TrimStart(Tail(s)) ELSE s

RECURSIVE TrimEnd(_)
TrimEnd(s) ==
    IF s = << >> THEN s
    ELSE IF s[Len(s)] \in WhiteSpace THEN TrimEnd(SubSeq(s, 1, Len(s) - 1)) ELSE s

TrimIdentity(s) == s

Trim(s) == TrimEnd(TrimStart(s))

\* --------------------------------------------------------- HTTP responses
\* what `await fetch(...)` followed by `await response.json()` yields
NoResp == [kind |-> "none", status |-> 0, translation |-> << >>, error |-> ""]
OkResp(t) == [kind |-> "json", status |-> 200, translation |-> t, error |-> ""]
ErrResp(st, msg) == [kind |-> "json", status |-> st, translation |-> << >>, error |-> msg]
Rejected == [kind |-> "throw", status |-> 0, translation |-> << >>, error |-> ""]

RateLimitMsg == "Limite de uso da API atingido. Tente novamente mais tarde."

Responses ==
    {OkResp(t) : t \in Translations}
        \cup {ErrResp(429, RateLimitMsg), ErrResp(500, ""), Rejected}

ResponseOk(resp) == resp.status >= 200 /\ resp.status <= 299

\* ---------------------------------------------------------------- state
VARIABLES
    sourceText, translatedText, sourceLang, targetLang,
    isTranslating, history, apiError,
    showHistory,    \* the History panel; its toggle button is left out, so it stays closed
    toast,          \* the last notification surfaced through toast.*
    requests,       \* fetches whose continuation has not run yet
    fetchCalls,     \* number of POSTs issued to /api/translate
    translateCalls, \* handleTranslate invocations that passed validation
    \* --- the proxy, one request at a time (it keeps no state across requests)
    pxPc,           \* "idle", "received", "awaiting" (the provider), "done"
    pxBody,         \* what request.json() yields
    pxApiKey,       \* process.env.OPENAI_API_KEY when the request is handled
    pxProviderCalls,\* calls of openai.chat.completions.create for this request
    pxOutcome,      \* how the provider call settled
    pxResponses     \* the responses returned for this request

clientVars ==
    <<sourceText, translatedText, sourceLang, targetLang, isTranslating,
      history, showHistory, apiError, toast, requests, fetchCalls, translateCalls>>


proxyVars == <<pxPc, pxBody, pxApiKey, pxProviderCalls, pxOutcome, pxResponses>>

vars == <<clientVars, proxyVars>>

\* the component's state as one value, so that handlers are functions on it
Session ==
    [sourceText |-> sourceText, translatedText |-> translatedText,
     sourceLang |-> sourceLang, targetLang |-> targetLang,
     isTranslating |-> isTranslating, history |-> history,
     showHistory |-> showHistory, apiError |-> apiError, toast |-> toast,
     requests |-> requests, fetchCalls |-> fetchCalls,
     translateCalls |-> translateCalls]

Commit(n) ==
    /\ sourceText' = n.sourceText
    /\ translatedText' = n.translatedText
    /\ sourceLang' = n.sourceLang
    /\ targetLang' = n.targetLang
    /\ isTranslating' = n.isTranslating
    /\ history' = n.history
    /\ showHistory' = n.showHistory
    /\ apiError' = n.apiError
    /\ toast' = n.toast
    /\ requests' = n.requests
    /\ fetchCalls' = n.fetchCalls
    /\ translateCalls' = n.translateCalls
    /\ UNCHANGED proxyVars

Start(n) ==
    /\ sourceText = n.sourceText
    /\ translatedText = n.translatedText
    /\ sourceLang = n.sourceLang
    /\ targetLang = n.targetLang
    /\ isTranslating = n.isTranslating
    /\ history = n.history
    /\ showHistory = n.showHistory
    /\ apiError = n.apiError
    /\ toast = n.toast
    /\ requests = n.requests
    /\ fetchCalls = n.fetchCalls
    /\ translateCalls = n.translateCalls

InitialSession ==
    [sourceText |-> << >>, translatedText |-> << >>,
     sourceLang |-> "pt", targetLang |-> "en",
     isTranslating |-> FALSE, history |-> << >>,
     showHistory |-> FALSE, apiError |-> Null, toast |-> NoToast,
     requests |-> {}, fetchCalls |-> 0, translateCalls |-> 0]

\* -------------------------------------------------------------- handlers
Translation(from, to, original, translated) ==
    [from |-> from, to |-> to, original |-> original, translated |-> translated]

\* the body of fetch: what handleTranslate sends and what its closure holds
Request(s) ==
    [id |-> s.fetchCalls + 1, text |-> s.sourceText,
     sourceLang |-> s.sourceLang, targetLang |-> s.targetLang,
     history |-> s.history, resp |-> NoResp]

\* handleTranslate up to `await fetch`
HandleTranslate(s) ==
    IF Trim(s.sourceText) = << >>
    THEN [s EXCEPT !.toast = ValidationMsg]
    ELSE [s EXCEPT !.isTranslating = TRUE,
                   !.apiError = Null,
                   !.requests = @ \cup {Request(s)},
                   !.fetchCalls = @ + 1,
                   !.translateCalls = @ + 1]

\* [newTranslation, ...history.slice(0, 9)]
PushHistoryKeepAll(rec, hist) == <<rec>> \o hist

PushHistory(rec, hist) ==
    <<rec>> \o SubSeq(hist, 1, IF Len(hist) < HistoryKeep THEN Len(hist) ELSE HistoryKeep)

\* data.error || "Erro ao traduzir"
ErrorMessageGeneric(resp) == FallbackErrorMsg

ErrorMessage(resp) == IF resp.error # "" THEN resp.error ELSE FallbackErrorMsg

\* handleTranslate from `await fetch` on, for request r that got r.resp
ResumeNoFinally(s, r) ==
    LET rest == [s EXCEPT !.requests = @ \ {r}] IN
    IF r.resp.kind = "throw"
    THEN [rest EXCEPT !.apiError = ConnectErrorMsg, !.toast = ConnectErrorMsg]
    ELSE IF ~ResponseOk(r.resp)
    THEN [rest EXCEPT !.apiError = ErrorMessage(r.resp),
                      !.toast = ErrorMessage(r.resp)]
    ELSE [rest EXCEPT !.translatedText = r.resp.translation,
                      !.history = PushHistory(
                          Translation(r.sourceLang, r.targetLang, r.text,
                                      r.resp.translation), r.history),
                      !.toast = SuccessMsg,
                      !.isTranslating = FALSE]

ResumeRetry(s, r) ==
    LET rest == [s EXCEPT !.requests = @ \ {r}] IN
    IF r.resp.kind = "throw"
    THEN [rest EXCEPT !.apiError = ConnectErrorMsg, !.toast = ConnectErrorMsg,
                      !.requests = @ \cup {[r EXCEPT !.id = s.fetchCalls + 1,
                                                     !.resp = NoResp]},
                      !.fetchCalls = @ + 1]
    ELSE IF ~ResponseOk(r.resp)
    THEN [rest EXCEPT !.apiError = ErrorMessage(r.resp),
                      !.toast = ErrorMessage(r.resp),
                      !.isTranslating = FALSE]
    ELSE [rest EXCEPT !.translatedText = r.resp.translation,
                      !.history = PushHistory(
                          Translation(r.sourceLang, r.targetLang, r.text,
                                      r.resp.translation), r.history),
                      !.toast = SuccessMsg,
                      !.isTranslating = FALSE]

ResumeCurrentState(s, r) ==
    LET rest == [s EXCEPT !.requests = @ \ {r}] IN
    IF r.resp.kind = "throw"
    THEN [rest EXCEPT !.apiError = ConnectErrorMsg, !.toast = ConnectErrorMsg,
                      !.isTranslating = FALSE]
    ELSE IF ~ResponseOk(r.resp)
    THEN [rest EXCEPT !.apiError = ErrorMessage(r.resp),
                      !.toast = ErrorMessage(r.resp),
                      !.isTranslating = FALSE]
    ELSE [rest EXCEPT !.translatedText = r.resp.translation,
                      !.history = PushHistory(
                          Translation(s.sourceLang, s.targetLang, s.sourceText,
                                      r.resp.translation), s.history),
                      !.toast = SuccessMsg,
                      !.isTranslating = FALSE]

Resume(s, r) ==
    LET rest == [s EXCEPT !.requests = @ \ {r}] IN
    IF r.resp.kind = "throw"
    THEN [rest EXCEPT !.apiError = ConnectErrorMsg, !.toast = ConnectErrorMsg,
                      !.isTranslating = FALSE]
    ELSE IF ~ResponseOk(r.resp)
    THEN [rest EXCEPT !.apiError = ErrorMessage(r.resp),
                      !.toast = ErrorMessage(r.resp),
                      !.isTranslating = FALSE]
    ELSE [rest EXCEPT !.translatedText = r.resp.translation,
                      !.history = PushHistory(
                          Translation(r.sourceLang, r.targetLang, r.text,
                                      r.resp.translation), r.history),
                      !.toast = SuccessMsg,
                      !.isTranslating = FALSE]

SwapLanguagesOnly(s) ==
    [s EXCEPT !.sourceLang = s.targetLang, !.targetLang = s.sourceLang,
              !.sourceText = s.translatedText]

SwapLanguages(s) ==
    [s EXCEPT !.sourceLang = s.targetLang, !.targetLang = s.sourceLang,
              !.sourceText = s.translatedText, !.translatedText = s.sourceText]

LoadFromHistory(s, item) ==
    [s EXCEPT !.sourceLang = item.from, !.targetLang = item.to,
              !.sourceText = item.original, !.translatedText = item.translated,
              !.showHistory = FALSE, !.toast = LoadedMsg]

\* --------------------------------------------------------------- actions
setSourceText(t) == Commit([Session EXCEPT !.sourceText = t])

setSourceLang(c) == Commit([Session EXCEPT !.sourceLang = c])

setTargetLang(c) == Commit([Session EXCEPT !.targetLang = c])

swapLanguages == Commit(SwapLanguages(Session))

loadFromHistory(i) == Commit(LoadFromHistory(Session, history[i]))

\* handleTranslate has no guard of its own on isTranslating: the Translate
\* button is disabled while isTranslating or the text is blank (page.tsx:302),
\* the handler is callable in every state.  budget and MaxInFlight only bound
\* the exploration.
handleTranslate(budget) ==
    /\ Trim(sourceText) # << >> => fetchCalls < budget /\ Cardinality(requests) < MaxInFlight
    /\ Commit(HandleTranslate(Session))

\* the network settles the fetch of request r
fetchSettles(r, resp) ==
    /\ r.resp = NoResp
    /\ requests' = (requests \ {r}) \cup {[r EXCEPT !.resp = resp]}
    /\ UNCHANGED <<sourceText, translatedText, sourceLang, targetLang, isTranslating,
                   history, showHistory, apiError, toast, fetchCalls, translateCalls>>
    /\ UNCHANGED proxyVars

\* the continuation of handleTranslate runs
resumeTranslate(r) ==
    /\ r.resp # NoResp
    /\ Commit(Resume(Session, r))

\* ================================================================= proxy
\* a property of the JSON body, or an environment variable: absent, or a value
Field(has, val) == [has |-> has, val |-> val]

TextFields == {Field(FALSE, << >>), Field(TRUE, << >>), Field(TRUE, <<" ">>), Field(TRUE, <<"a">>)}
LangFields == {Field(FALSE, ""), Field(TRUE, ""), Field(TRUE, "en"), Field(TRUE, "xx")}
EnvKeys == {Field(FALSE, ""), Field(TRUE, ""), Field(TRUE, "sk-test")}

\* request.json(): rejects ("unparsable"), yields null, or yields an object
Body(kind, text, src, tgt) ==
    [kind |-> kind, text |-> text, sourceLang |-> src, targetLang |-> tgt]

Bodies ==
    {Body("object", t, s, g) : t \in TextFields, s \in LangFields, g \in LangFields}
        \cup {Body(k, Field(FALSE, << >>), Field(FALSE, ""), Field(FALSE, "")) :
                k \in {"unparsable", "null"}}

NoBody == Body("none", Field(FALSE, << >>), Field(FALSE, ""), Field(FALSE, ""))

\* how openai.chat.completions.create settles
Outcome(kind, content, status, keyMsg) ==
    [kind |-> kind, content |-> content, status |-> status, keyMsg |-> keyMsg]

NoOutcome == Outcome("none", << >>, 0, FALSE)

Outcomes ==
    {Outcome("completion", c, 0, FALSE) : c \in {<<" ", "x", "\n">>, <<"y">>, << >>}}
        \cup {Outcome("nochoice", << >>, 0, FALSE), Outcome("malformed", << >>, 0, FALSE)}
        \cup {Outcome("error", << >>, st, k) : st \in {0, 401, 429, 500}, k \in BOOLEAN}

BadRequestMsg == "Parâmetros inválidos"
MisconfiguredMsg == "Chave da OpenAI não configurada. Configure OPENAI_API_KEY nas variáveis de ambiente."
UnauthorizedMsg == "Chave da OpenAI inválida. Verifique sua configuração."
UpstreamMsg == "Erro ao processar tradução. Tente novamente."

\* NextResponse.json(...)
ProxyResponse(status, error, translation) ==
    [status |-> status, error |-> error, translation |-> translation]

\* !x for a body property or an environment variable
FalsyOnlyUndefined(f) == ~f.has

Falsy(f) == ~f.has \/ Len(f.val) = 0

\* the catch block
CatchResponseNoRateLimit(err) ==
    IF err.status = 401 \/ err.keyMsg
    THEN ProxyResponse(401, UnauthorizedMsg, << >>)
    ELSE ProxyResponse(500, UpstreamMsg, << >>)

CatchResponse(err) ==
    IF err.status = 401 \/ err.keyMsg
    THEN ProxyResponse(401, UnauthorizedMsg, << >>)
    ELSE IF err.status = 429
    THEN ProxyResponse(429, RateLimitMsg, << >>)
    ELSE ProxyResponse(500, UpstreamMsg, << >>)

\* an exception that is no provider error: no status, another message
PlainError == Outcome("error", << >>, 0, FALSE)

\* the try block up to the provider call: a response, or the call
BeforeProvider(body, key) ==
    IF body.kind # "object"
    THEN [call |-> FALSE, resp |-> CatchResponse(PlainError)]
    ELSE IF Falsy(body.text) \/ Falsy(body.sourceLang) \/ Falsy(body.targetLang)
    THEN [call |-> FALSE, resp |-> ProxyResponse(400, BadRequestMsg, << >>)]
    ELSE IF Falsy(key)
    THEN [call |-> FALSE, resp |-> ProxyResponse(500, MisconfiguredMsg, << >>)]
    ELSE [call |-> TRUE, resp |-> ProxyResponse(0, "", << >>)]

\* the try block after the provider call settled
AfterProvider(o) ==
    IF o.kind = "error" THEN CatchResponse(o)
    ELSE IF o.kind = "malformed" THEN CatchResponse(PlainError)
    ELSE ProxyResponse(200, "", Trim(o.content))

pxReceive(body, key) ==
    /\ pxPc \in {"idle", "done"}
    /\ pxPc' = "received"
    /\ pxBody' = body
    /\ pxApiKey' = key
    /\ pxProviderCalls' = 0
    /\ pxOutcome' = NoOutcome
    /\ pxResponses' = << >>
    /\ UNCHANGED clientVars

pxHandle ==
    /\ pxPc = "received"
    /\ LET b == BeforeProvider(pxBody, pxApiKey) IN
         IF b.call
         THEN /\ pxPc' = "awaiting"
              /\ pxProviderCalls' = pxProviderCalls + 1
              /\ UNCHANGED pxResponses
         ELSE /\ pxPc' = "done"
              /\ pxResponses' = Append(pxResponses, b.resp)
              /\ UNCHANGED pxProviderCalls
    /\ UNCHANGED <<pxBody, pxApiKey, pxOutcome>>
    /\ UNCHANGED clientVars

pxProviderSettles(o) ==
    /\ pxPc = "awaiting"
    /\ pxPc' = "done"
    /\ pxOutcome' = o
    /\ pxResponses' = Append(pxResponses, AfterProvider(o))
    /\ UNCHANGED <<pxBody, pxApiKey, pxProviderCalls>>
    /\ UNCHANGED clientVars

\* ======================================================== specifications
InitProxy ==
    /\ pxPc = "idle"
    /\ pxBody = NoBody
    /\ pxApiKey = Field(FALSE, "")
    /\ pxProviderCalls = 0
    /\ pxOutcome = NoOutcome
    /\ pxResponses = << >>

Init == Start(InitialSession) /\ InitProxy

Next ==
    \/ \E t \in Texts : setSourceText(t)
    \/ \E c \in LangChoices : setSourceLang(c)
    \/ \E c \in LangChoices : setTargetLang(c)
    \/ swapLanguages
    \/ \E i \in 1..Len(history) : loadFromHistory(i)
    \/ handleTranslate(MaxRequests)
    \/ \E r \in requests, resp \in Responses : fetchSettles(r, resp)
    \/ \E r \in requests : resumeTranslate(r)

Spec == Init /\ [][Next]_vars

\* a session whose History is full: HistoryKeep + 1 translations made one after
\* the other, "a" from pt to en and every third time the result translated back
MaxRequestsFull == 1   \* translate() invocations that issue a request, SpecFull

Prefilled == HistoryKeep + 1

FullHistory ==
    [i \in 1..Prefilled |->
        IF i % 3 = 0 THEN Translation("en", "pt", <<"x">>, <<"x">>)
        ELSE Translation("pt", "en", <<"a">>, <<"x">>)]

FullSession ==
    [InitialSession EXCEPT !.sourceText = FullHistory[1].original,
                           !.translatedText = FullHistory[1].translated,
                           !.history = FullHistory,
                           !.toast = SuccessMsg,
                           !.fetchCalls = Prefilled,
                           !.translateCalls = Prefilled]

InitFull == Start(FullSession) /\ InitProxy

NextFull ==
    \/ \E t \in Texts : setSourceText(t)
    \/ \E c \in LangChoices : setSourceLang(c)
    \/ \E c \in LangChoices : setTargetLang(c)
    \/ swapLanguages
    \/ \E i \in 1..Len(history) : loadFromHistory(i)
    \/ handleTranslate(Prefilled + MaxRequestsFull)
    \/ \E r \in requests, resp \in Responses : fetchSettles(r, resp)
    \/ \E r \in requests : resumeTranslate(r)

SpecFull == InitFull /\ [][NextFull]_vars

NextProxy ==
    \/ \E body \in Bodies, key \in EnvKeys : pxReceive(body, key)
    \/ pxHandle
    \/ \E o \in Outcomes : pxProviderSettles(o)

SpecProxy == Init /\ [][NextProxy]_vars

\* ================================================================ claims
IsBlank(t) == \A i \in 1..Len(t) : t[i] \in WhiteSpace

Ids(rs) == {q.id : q \in rs}

\* this step runs the continuation of request r
Resumed(r) == r \in requests /\ r.resp # NoResp /\ r.id \notin Ids(requests')

Succeeded(r) == Resumed(r) /\ r.resp.kind = "json" /\ r.resp.status \in 200..299

Failed(r) == Resumed(r) /\ ~(r.resp.kind = "json" /\ r.resp.status \in 200..299)

\* a body property or environment variable that is not there or empty
Absent(f) == f.has = FALSE \/ Len(f.val) = 0

Incomplete(b) == Absent(b.text) \/ Absent(b.sourceLang) \/ Absent(b.targetLang)

\* History changes only when a request succeeds, and what follows the new
\* record are records that were in History before
Range(f) == {f[i] : i \in DOMAIN f}

HistoryOnlyGrows ==
    history' # history =>
        \E r \in requests :
            /\ Succeeded(r)
            /\ \A i \in 2..Len(history') : history'[i] \in Range(r.history)

\* C1: History never holds more than 10 records, and a successful translate()
\* invoked on a History of 10 records leaves 10 records: the new one in front
\* of the first nine, the oldest (index 9) dropped.
C1_HistoryBounded ==
    /\ [](Len(history) <= 10)
    /\ [][\A r \in requests :
            Succeeded(r) /\ Len(r.history) = 10 =>
                /\ Len(history') = 10
                /\ \A i \in 1..9 : history'[i + 1] = r.history[i]
                /\ history'[1].original = r.text]_vars

C1_Witness ==
    /\ fetchCalls = Prefilled + 1
    /\ requests = {}
    /\ toast = SuccessMsg
    /\ Len(history) = 10
    /\ history[2] = FullHistory[1]
    /\ history[10] = FullHistory[9]

C3_ErrorMapping ==
    /\ Len(pxResponses) <= 1
    /\ pxPc = "done" =>
        /\ Len(pxResponses) = 1
        /\ pxResponses[1].status \in {200, 400, 401, 429, 500}
        /\ pxResponses[1].status # 200 => pxResponses[1].error # ""
        /\ pxBody.kind # "object" =>
              pxResponses[1].status = 500 /\ pxResponses[1].error = UpstreamMsg
        /\ pxOutcome.kind = "error" =>
              IF pxOutcome.status = 401 \/ pxOutcome.keyMsg
              THEN pxResponses[1].status = 401
              ELSE IF pxOutcome.status = 429
              THEN pxResponses[1].status = 429
              ELSE pxResponses[1].status = 500 /\ pxResponses[1].error = UpstreamMsg
        /\ pxOutcome.kind = "malformed" =>
              pxResponses[1].status = 500 /\ pxResponses[1].error = UpstreamMsg
        /\ pxOutcome.kind \in {"completion", "nochoice"} => pxResponses[1].status = 200

C3_Witness ==
    /\ pxPc = "done"
    /\ pxOutcome = Outcome("error", << >>, 429, FALSE)
    /\ pxResponses = <<ProxyResponse(429, RateLimitMsg, << >>)>>

C5_BlankTranslate ==
    [][/\ IsBlank(sourceText) =>
            fetchCalls' = fetchCalls /\ Ids(requests') \subseteq Ids(requests)
       /\ toast' = ValidationMsg /\ toast # ValidationMsg =>
            /\ IsBlank(sourceText)
            /\ UNCHANGED <<sourceText, translatedText, sourceLang, targetLang,
                           isTranslating, history, showHistory, apiError,
                           requests, fetchCalls, translateCalls>>]_vars

C5_Witness ==
    /\ toast = ValidationMsg
    /\ sourceText = <<" ", "\n">>
    /\ fetchCalls = 0

\* C6: swapLanguages exchanges the two languages and the two texts and leaves
\* everything else alone; applied twice it gives the state back.
C6_SwapInvolution ==
    LET s0 == Session
        s1 == SwapLanguages(s0)
        s2 == SwapLanguages(s1)
    IN /\ s2 = s0
       /\ s1.sourceLang = s0.targetLang
       /\ s1.targetLang = s0.sourceLang
       /\ s1.sourceText = s0.translatedText
       /\ s1.translatedText = s0.sourceText
       /\ s1.history = s0.history
       /\ s1.isTranslating = s0.isTranslating
       /\ s1.apiError = s0.apiError
       /\ s1.requests = s0.requests
       /\ s1.fetchCalls = s0.fetchCalls

\* the state a swap leaves after "a" was translated to "x"
C6_Witness ==
    /\ sourceText = <<"x">>
    /\ translatedText = <<"a">>
    /\ sourceLang = "en"
    /\ targetLang = "pt"
    /\ Len(history) = 1

\* C7: the requests sent are the translate() invocations that passed
\* validation: each issues one POST, also with a request in flight, and no
\* continuation issues another.
C7_OneRequestPerCall ==
    /\ [](fetchCalls = translateCalls)
    /\ [][/\ translateCalls' # translateCalls =>
               /\ translateCalls' = translateCalls + 1
               /\ fetchCalls' = fetchCalls + 1
               /\ Cardinality(requests') = Cardinality(requests) + 1
          /\ (\E r \in requests : r.resp # NoResp /\ r \notin requests') =>
               fetchCalls' = fetchCalls /\ Ids(requests') \subseteq Ids(requests)]_vars

\* two invocations, the second with the first in flight, one failed in transport
C7_Witness ==
    /\ fetchCalls = 2
    /\ translateCalls = 2
    /\ Cardinality(requests) = 1
    /\ apiError = ConnectErrorMsg

====
